---- MODULE Spec2Model ----
(***************************************************************************)
(* Request handling of the email assistant back ends:                      *)
(*   FastAPI.py  POST /chat, POST /generate-email, POST /send-email,       *)
(*               GET /health; WS /ws under the specification WsSpec        *)
(*   main.py     POST /chat, POST /generate-email, GET /health             *)
(*   routes.py   POST / (generate_email with an EmailLog row), GET / of    *)
(*               the log router, EmailLogCRUD.get                          *)
(*   app.py      the Streamlit form submit (generate, then save) and the   *)
(*               history sidebar                                           *)
(*                                                                         *)
(* A Python str is a sequence of tokens.  A token is one character, or one *)
(* of the atomic words "FENCE" (three backticks), "json", "subject",       *)
(* "body", "null".  split, strip, the in test, json.loads, dict.get,       *)
(* replace and title are computed on these sequences the way CPython       *)
(* computes them on strings.                                               *)
(***************************************************************************)
EXTENDS Integers, Sequences, FiniteSets, TLC

(***************************************************************************)
(* Bounds of the model.                                                    *)
(***************************************************************************)
MaxHistory == 11    \* longest conversation_history a /chat request carries
MaxLogs == 2        \* rows the email_logs table may hold
MaxClock == 2       \* ticks the clock may advance
MaxMessages == 2    \* messages one websocket may deliver

(***************************************************************************)
(* str primitives                                                          *)
(***************************************************************************)
FENCE == "FENCE"
QUOTE == "\""
Whitespace == {" ", "\n"}

RECURSIVE lstrip(_)
lstrip(s) == IF s # <<>> /\ Head(s) \in Whitespace THEN lstrip(Tail(s)) ELSE s

RECURSIVE rstrip(_)
rstrip(s) ==
  IF s # <<>> /\ s[Len(s)] \in Whitespace
    THEN rstrip(SubSeq(s, 1, Len(s) - 1))
    ELSE s

\* str.strip(): leading and trailing whitespace removed
strip(s) == rstrip(lstrip(s))

OccursAt(s, sep, j) ==
  /\ j + Len(sep) - 1 <= Len(s)
  /\ SubSeq(s, j, j + Len(sep) - 1) = sep

\* str.find(sep) + 1: the first position of sep in s, 0 when there is none
find(s, sep) ==
  IF \E j \in 1..Len(s) : OccursAt(s, sep, j)
    THEN CHOOSE j \in 1..Len(s) :
           OccursAt(s, sep, j) /\ \A k \in 1..(j - 1) : ~OccursAt(s, sep, k)
    ELSE 0

\* sep in s
contains(sep, s) == find(s, sep) # 0

\* s.split(sep): the pieces between the occurrences of sep, left to right
RECURSIVE split(_, _)
split(s, sep) ==
  LET j == find(s, sep)
  IN  IF j = 0
        THEN <<s>>
        ELSE <<SubSeq(s, 1, j - 1)>> \o split(SubSeq(s, j + Len(sep), Len(s)), sep)

\* s.replace(old, new) for one-character old and new
replace(s, old, new) == [i \in 1..Len(s) |-> IF s[i] = old THEN new ELSE s[i]]

LowerCase == {"a", "b"}
UpperCase == {"A", "B"}
upper(c) == IF c = "a" THEN "A" ELSE IF c = "b" THEN "B" ELSE c
lower(c) == IF c = "A" THEN "a" ELSE IF c = "B" THEN "b" ELSE c
IsCased(c) == c \in LowerCase \cup UpperCase

\* str.title(): a cased character is upper-cased when it follows an uncased
\* character (or starts the string) and lower-cased otherwise
title(s) ==
  [i \in 1..Len(s) |->
     IF i > 1 /\ IsCased(s[i - 1]) THEN lower(s[i]) ELSE upper(s[i])]

(***************************************************************************)
(* json.loads                                                              *)
(* A decoded value is [t, s, m]: t its Python type, s the text of a str,   *)
(* m the (key, value) pairs of a dict in document order or the elements of *)
(* a list.                                                                 *)
(***************************************************************************)
JsonWhitespace == {" ", "\n"}
Digits == {"4"}

JNull == [t |-> "NoneType", s |-> <<>>, m |-> <<>>]
JInt == [t |-> "int", s |-> <<>>, m |-> <<>>]
JStr(text) == [t |-> "str", s |-> text, m |-> <<>>]
JList(elems) == [t |-> "list", s |-> <<>>, m |-> elems]
JDict(pairs) == [t |-> "dict", s |-> <<>>, m |-> pairs]

ParseFail == [ok |-> FALSE, val |-> JNull, pos |-> 0]
Parsed(v, p) == [ok |-> TRUE, val |-> v, pos |-> p]

RECURSIVE SkipWs(_, _)
SkipWs(s, i) ==
  IF i <= Len(s) /\ s[i] \in JsonWhitespace THEN SkipWs(s, i + 1) ELSE i

\* the position of the first QUOTE at or after i, 0 when there is none
RECURSIVE ClosingQuote(_, _)
ClosingQuote(s, i) ==
  IF i > Len(s) THEN 0
  ELSE IF s[i] = QUOTE THEN i
  ELSE ClosingQuote(s, i + 1)

\* a string literal starting at the QUOTE at i; a raw newline inside it is
\* an invalid control character
ParseString(s, i) ==
  LET j == ClosingQuote(s, i + 1)
  IN  IF j = 0 THEN ParseFail
      ELSE IF \E k \in (i + 1)..(j - 1) : s[k] = "\n" THEN ParseFail
      ELSE Parsed(JStr(SubSeq(s, i + 1, j - 1)), j + 1)

RECURSIVE ParseValue(_, _), ParseMembers(_, _, _), ParseElements(_, _, _)

\* the value starting at i (whitespace already skipped)
ParseValue(s, i) ==
  IF i > Len(s) THEN ParseFail
  ELSE IF s[i] = "null" THEN Parsed(JNull, i + 1)
  ELSE IF s[i] \in Digits THEN Parsed(JInt, i + 1)
  ELSE IF s[i] = QUOTE THEN ParseString(s, i)
  ELSE IF s[i] = "[" THEN
    LET j == SkipWs(s, i + 1)
    IN  IF j <= Len(s) /\ s[j] = "]"
          THEN Parsed(JList(<<>>), j + 1)
          ELSE ParseElements(s, j, <<>>)
  ELSE IF s[i] = "{" THEN
    LET j == SkipWs(s, i + 1)
    IN  IF j <= Len(s) /\ s[j] = "}"
          THEN Parsed(JDict(<<>>), j + 1)
          ELSE ParseMembers(s, j, <<>>)
  ELSE ParseFail

\* the members of an object from the key at i on, acc the pairs read so far
ParseMembers(s, i, acc) ==
  IF i > Len(s) \/ s[i] # QUOTE THEN ParseFail
  ELSE
    LET k == ParseString(s, i)
    IN  IF ~k.ok THEN ParseFail
        ELSE
          LET c == SkipWs(s, k.pos)
          IN  IF c > Len(s) \/ s[c] # ":" THEN ParseFail
              ELSE
                LET v == ParseValue(s, SkipWs(s, c + 1))
                IN  IF ~v.ok THEN ParseFail
                    ELSE
                      LET e == SkipWs(s, v.pos)
                          pairs == Append(acc, <<k.val.s, v.val>>)
                      IN  IF e > Len(s) THEN ParseFail
                          ELSE IF s[e] = "}" THEN Parsed(JDict(pairs), e + 1)
                          ELSE IF s[e] = ","
                            THEN ParseMembers(s, SkipWs(s, e + 1), pairs)
                          ELSE ParseFail

\* the elements of an array from the value at i on
ParseElements(s, i, acc) ==
  LET v == ParseValue(s, i)
  IN  IF ~v.ok THEN ParseFail
      ELSE
        LET e == SkipWs(s, v.pos)
            elems == Append(acc, v.val)
        IN  IF e > Len(s) THEN ParseFail
            ELSE IF s[e] = "]" THEN Parsed(JList(elems), e + 1)
            ELSE IF s[e] = "," THEN ParseElements(s, SkipWs(s, e + 1), elems)
            ELSE ParseFail

\* json.loads(s): ok = FALSE is json.JSONDecodeError (no value, or text
\* after the value)
json_loads(s) ==
  LET r == ParseValue(s, SkipWs(s, 1))
  IN  IF r.ok /\ SkipWs(s, r.pos) > Len(s)
        THEN [ok |-> TRUE, val |-> r.val]
        ELSE [ok |-> FALSE, val |-> JNull]

\* dict.get(key, default): the value of the last pair with that key
dict_get(d, key, default) ==
  LET hits == {i \in 1..Len(d.m) : d.m[i][1] = key}
  IN  IF hits = {} THEN default
      ELSE d.m[CHOOSE i \in hits : \A j \in hits : j <= i][2]


(***************************************************************************)
(* Inputs                                                                  *)
(***************************************************************************)
\* OPENAI_API_KEY: unset, set to something that is no key, set to a key
ApiKeys == {"", "bad", "sk-key"}
startswith_sk(key) == key = "sk-key"

\* one element of conversation_history: a Dict[str, str] that may lack keys
Turns == {[role |-> "assistant"], [content |-> "hi"]}
Histories == UNION {[1..n -> Turns] : n \in 0..MaxHistory}
ChatMessages == {"", "write"}
ChatReplies == {"reply"}

EmailTypes == {<<"a", "_", "b">>, <<"b", "A">>}
RecipientNames == {<<>>, <<"B">>}

Q(text) == <<QUOTE>> \o text \o <<QUOTE>>
Member(key, value) == Q(<<key>>) \o <<":", " ">> \o value
Object2(m1, m2) == <<"{">> \o m1 \o <<",", " ">> \o m2 \o <<"}">>
Object1(m1) == <<"{">> \o m1 \o <<"}">>

\* what a JSON string of the model's answer may hold
StringTexts == {<<>>, <<"a">>, <<"a", " ", "b">>, <<"a", FENCE, "b", FENCE>>}
FieldValues == {Q(t) : t \in StringTexts} \cup {<<"null">>, <<"[", "]">>}

JsonObjects ==
  {Object2(Member("subject", a), Member("body", b)) : a, b \in FieldValues}
  \cup {Object1(Member("subject", Q(<<"a">>))), Object1(Member("body", Q(<<"a">>))),
        <<"{", "}">>}
NonObjects == {<<"null">>, <<"4">>, <<"[", "]">>, <<"[", "4", "]">>, Q(<<"a">>)}
NotJson == {<<>>, <<"a">>, <<"a", " ", "b">>, <<"{", QUOTE, "subject", QUOTE>>,
            <<"{", "}", "a">>}
Payloads == JsonObjects \cup NonObjects \cup NotJson

\* the payload as the model may wrap it
Wrappings(p) ==
  { p,
    <<"\n">> \o p \o <<" ">>,
    <<FENCE, "json", "\n">> \o p \o <<"\n", FENCE>>,
    <<FENCE, "\n">> \o p \o <<"\n", FENCE>>,
    <<"a", "\n", FENCE, "json", "\n">> \o p \o <<"\n", FENCE, "\n", "b">>,
    <<"a", "\n", FENCE, "\n">> \o p \o <<"\n", FENCE, "\n", "b">> }
RawTexts == UNION {Wrappings(p) : p \in Payloads}


\* POST /send-email bodies
ToEmails == {"a@b.c", "not-an-address"}
EmailStr(v) == v = "a@b.c"
Subjects == {"", "s"}
Bodies == {"", "b"}

\* EmailRequest of routes.py and the form of app.py; None is Python's None
None == "None"
GenRequests ==
  { [user_input |-> "u1", context |-> None, response_to |-> None,
     length |-> "medium", tone |-> "formal"],
    [user_input |-> "u2", context |-> "ctx", response_to |-> "orig",
     length |-> "short", tone |-> "casual"],
    [user_input |-> "u3", context |-> "", response_to |-> "",
     length |-> "huge", tone |-> "formal"],
    [user_input |-> "u4", context |-> "ctx", response_to |-> "",
     length |-> "long", tone |-> "relaxed"],
    [user_input |-> "u5", context |-> None, response_to |-> "orig",
     length |-> None, tone |-> None] }
FormInputs ==
  { [user_input |-> "u1", context |-> "", response_to |-> "",
     length |-> "medium", tone |-> "professional"],
    [user_input |-> "u2", context |-> "ctx", response_to |-> "orig",
     length |-> "short", tone |-> "casual"],
    [user_input |-> "", context |-> "ctx", response_to |-> "",
     length |-> "long", tone |-> "urgent"],
    [user_input |-> "u3", context |-> "", response_to |-> "orig",
     length |-> "long", tone |-> "friendly"] }
\* the context field of EmailGenerationRequest, a required str
Contexts == {"", "ctx"}
\* CROSS is the cross mark that starts every error text of app.py
CROSS == "CROSS"
GeneratedTexts == {<<"a">>, <<" ", "b", "\n">>, <<CROSS, "a">>}

(***************************************************************************)
(* State                                                                   *)
(***************************************************************************)
VARIABLES
  variant,          \* the program that runs: "FastAPI", "main", "routes", "app"
  OPENAI_API_KEY,   \* the environment variable
  phase,            \* "boot", "serving", "aborted"
  openai_client,    \* TRUE: a client object, FALSE: None
  fm,               \* TRUE: a FastMail object, FALSE: None
  pc,               \* where the request in hand is
  request,          \* the validated request body
  messages,         \* messages= of the last chat.completions.create call
  upstream_calls,   \* chat.completions.create calls made for the request in hand
  completion,       \* what the last chat.completions.create call gave back
  mail_calls,       \* fm.send_message calls made for the request in hand
  mail_result,      \* how the last fm.send_message call ended
  response,         \* what the handler answered
  email_logs,       \* the rows of the EmailLog / email_logs table
  utcnow,           \* the reading of the clock, in ticks of its resolution
  max_tokens,       \* max_tokens= of the last generation call, 0 before it
  st_banner,        \* what the Streamlit client shows for the request in hand
  h_pc,             \* concurrent generate_email handlers: where each one is
  h_request,        \* ... the request each one serves
  h_text,           \* ... its local generated_email
  h_log,            \* ... the log object crud create gave it back
  h_response,       \* ... what it answered
  active_connections, \* manager.active_connections, a list of websockets
  ws_pc,            \* where the /ws handler of each websocket is
  ws_alive,         \* whether the peer of each websocket is still there
  ws_outcome,       \* per websocket, what became of each message received
  ws_sent,          \* per websocket, the messages replied to, in sending order
  ws_reply          \* per websocket, the text the handler is about to send

ws_vars == <<active_connections, ws_pc, ws_alive, ws_outcome, ws_sent, ws_reply>>

conc_vars == <<h_pc, h_request, h_text, h_log, h_response>>

http_vars == <<variant, OPENAI_API_KEY, phase, openai_client, fm, pc, request,
               messages, upstream_calls, completion, mail_calls, mail_result,
               response, email_logs, utcnow, max_tokens, st_banner>>

vars == <<http_vars, ws_vars, conc_vars>>

NoRequest == [kind |-> "none"]
NoResponse == [status |-> "none"]

\* an upstream call ends in one of three ways
NoCompletion == [kind |-> "none"]
Raised == [kind |-> "raised"]
NoContent == [kind |-> "content_none"]
Text(content) == [kind |-> "text", content |-> content]

HTTPException(status_code, detail) == [status |-> status_code, detail |-> detail]

\* the generate_email handlers of routes.py that may run at the same time
Handlers == {"h1", "h2"}

\* no handler has started
NoHandlers ==
  /\ h_pc = [h \in Handlers |-> "none"]
  /\ h_request = [h \in Handlers |-> NoRequest]
  /\ h_text = [h \in Handlers |-> <<>>]
  /\ h_log = [h \in Handlers |-> <<>>]
  /\ h_response = [h \in Handlers |-> NoResponse]

\* the websockets that may connect to /ws
Websockets == {"ws1", "ws2"}

\* no websocket has connected: manager = ConnectionManager()
NoWebsockets ==
  /\ active_connections = <<>>
  /\ ws_pc = [w \in Websockets |-> "none"]
  /\ ws_alive = [w \in Websockets |-> TRUE]
  /\ ws_outcome = [w \in Websockets |-> <<>>]
  /\ ws_sent = [w \in Websockets |-> <<>>]
  /\ ws_reply = [w \in Websockets |-> "none"]

Init ==
  /\ variant \in {"FastAPI", "main", "routes", "app"}
  /\ OPENAI_API_KEY \in ApiKeys
  /\ phase = "boot"
  /\ openai_client = FALSE
  /\ fm = FALSE
  /\ pc = "idle"
  /\ request = NoRequest
  /\ messages = <<>>
  /\ upstream_calls = 0
  /\ completion = NoCompletion
  /\ mail_calls = 0
  /\ mail_result = "none"
  /\ response = NoResponse
  /\ email_logs = <<>>
  /\ utcnow = 0
  /\ max_tokens = 0
  /\ st_banner = "none"
  /\ NoWebsockets
  /\ NoHandlers

(***************************************************************************)
(* Start of the process                                                    *)
(***************************************************************************)
\* FastAPI.py, module level: the client exists iff the key starts with sk-
\* and the constructor did not raise; fm exists iff the three MAIL_
\* variables are set and ConnectionConfig/FastMail did not raise
FastAPI_module_init ==
  /\ variant = "FastAPI" /\ phase = "boot"
  /\ \E ctor_ok \in BOOLEAN, mail_ok \in BOOLEAN :
       /\ openai_client' =
            (OPENAI_API_KEY # "" /\ startswith_sk(OPENAI_API_KEY) /\ ctor_ok)
       /\ fm' = mail_ok
  /\ phase' = "serving"
  /\ UNCHANGED <<ws_vars, conc_vars, max_tokens, st_banner, utcnow, variant, OPENAI_API_KEY, pc, request, messages,
                 upstream_calls, completion, mail_calls, mail_result,
                 response, email_logs>>

\* main.py: openai_client is None at import; startup_event calls init_openai
init_openai(key, ctor_ok) == key # "" /\ startswith_sk(key) /\ ctor_ok

main_startup_event ==
  /\ variant = "main" /\ phase = "boot"
  /\ \E ctor_ok \in BOOLEAN :
       openai_client' = init_openai(OPENAI_API_KEY, ctor_ok)
  /\ phase' = "serving"
  /\ UNCHANGED <<ws_vars, conc_vars, max_tokens, st_banner, utcnow, variant, OPENAI_API_KEY, fm, pc, request, messages,
                 upstream_calls, completion, mail_calls, mail_result,
                 response, email_logs>>

\* routes.py, module level: no key raises ValueError and the import fails
routes_module_init ==
  /\ variant = "routes" /\ phase = "boot"
  /\ IF OPENAI_API_KEY = ""
       THEN phase' = "aborted" /\ UNCHANGED openai_client
       ELSE phase' = "serving" /\ openai_client' = TRUE
  /\ UNCHANGED <<ws_vars, conc_vars, max_tokens, st_banner, utcnow, variant, OPENAI_API_KEY, fm, pc, request, messages,
                 upstream_calls, completion, mail_calls, mail_result,
                 response, email_logs>>

\* app.py: init_database() creates the table if it does not exist
init_database ==
  /\ variant = "app" /\ phase = "boot"
  /\ phase' = "serving"
  /\ UNCHANGED <<ws_vars, conc_vars, max_tokens, st_banner, utcnow, variant, OPENAI_API_KEY, openai_client, fm, pc, request,
                 messages, upstream_calls, completion, mail_calls,
                 mail_result, response, email_logs>>

(***************************************************************************)
(* GET /health   (FastAPI.py 110-125, main.py 99-118)                      *)
(***************************************************************************)
\* a health body that reports whether the key is set, not whether the
\* client exists
HealthResponse_by_key ==
  IF variant = "FastAPI"
    THEN [status |-> "200", health |-> "healthy",
          openai_available |-> (OPENAI_API_KEY # ""), email_configured |-> fm]
    ELSE [status |-> "200", health |-> "healthy",
          openai_available |-> (OPENAI_API_KEY # "")]

\* the body health_check returns: openai_client is not None, and in
\* FastAPI.py fm is not None; main.py reports no mail flag
HealthResponse ==
  IF variant = "FastAPI"
    THEN [status |-> "200", health |-> "healthy",
          openai_available |-> openai_client, email_configured |-> fm]
    ELSE [status |-> "200", health |-> "healthy",
          openai_available |-> openai_client]

health_check ==
  /\ variant \in {"FastAPI", "main"} /\ phase = "serving" /\ pc = "idle"
  /\ request' = [kind |-> "health"]
  /\ response' = HealthResponse
  /\ pc' = "responded"
  /\ UNCHANGED <<ws_vars, conc_vars, max_tokens, st_banner, utcnow, variant, OPENAI_API_KEY, phase,
                 openai_client, fm, messages, upstream_calls, completion,
                 mail_calls, mail_result, email_logs>>

\* the handlers that only report: GET / (FastAPI.py 97-107, main.py 90-96),
\* GET /email-templates and GET /email-stats (FastAPI.py 269-329)
InfoPaths(v) ==
  IF v = "FastAPI" THEN {"/", "/email-templates", "/email-stats"} ELSE {"/"}

get_info ==
  /\ variant \in {"FastAPI", "main"} /\ phase = "serving" /\ pc = "idle"
  /\ \E path \in InfoPaths(variant) :
       /\ request' = [kind |-> "info", path |-> path]
       /\ response' =
            IF variant = "FastAPI" /\ path # "/email-templates"
              THEN [status |-> "200", openai |-> openai_client, email |-> fm]
              ELSE [status |-> "200"]
  /\ pc' = "responded"
  /\ UNCHANGED <<ws_vars, conc_vars, max_tokens, st_banner, utcnow, variant,
                 OPENAI_API_KEY, phase, openai_client, fm, messages,
                 upstream_calls, completion, mail_calls, mail_result,
                 email_logs>>

(***************************************************************************)
(* POST /chat   (FastAPI.py 128-178, main.py 121-169)                      *)
(***************************************************************************)
HistoryWindowFastAPI == 10
HistoryWindowMain == 5
HistoryWindow(v) == IF v = "FastAPI" THEN HistoryWindowFastAPI ELSE HistoryWindowMain

\* a slice from the wrong end, h[:k]
first(h, k) == SubSeq(h, 1, IF Len(h) > k THEN k ELSE Len(h))

\* the Python slice h[-k:] for k > 0
last(h, k) == SubSeq(h, IF Len(h) > k THEN Len(h) - k + 1 ELSE 1, Len(h))

\* msg.get(key, default) on one history element
msg_get(msg, key, default) == IF key \in DOMAIN msg THEN msg[key] ELSE default

SYSTEM_PROMPT == "You are a professional email assistant AI."

\* the list with the new message ahead of the history
chat_messages_new_first(v, chat_request) ==
  LET window == last(chat_request.conversation_history, HistoryWindow(v))
  IN  <<[role |-> "system", content |-> SYSTEM_PROMPT]>>
      \o <<[role |-> "user", content |-> chat_request.message]>>
      \o [i \in 1..Len(window) |->
            [role |-> msg_get(window[i], "role", "user"),
             content |-> msg_get(window[i], "content", "")]]

\* the list built before the upstream call
chat_messages(v, chat_request) ==
  LET window == last(chat_request.conversation_history, HistoryWindow(v))
  IN  <<[role |-> "system", content |-> SYSTEM_PROMPT]>>
      \o [i \in 1..Len(window) |->
            [role |-> msg_get(window[i], "role", "user"),
             content |-> msg_get(window[i], "content", "")]]
      \o <<[role |-> "user", content |-> chat_request.message]>>

\* the framework validates the body against ChatMessage and calls the handler
receive_chat ==
  /\ variant \in {"FastAPI", "main"} /\ phase = "serving" /\ pc = "idle"
  /\ \E m \in ChatMessages, h \in Histories :
       request' = [kind |-> "chat", message |-> m, conversation_history |-> h]
  /\ pc' = "chat"
  /\ UNCHANGED <<ws_vars, conc_vars, max_tokens, st_banner, utcnow, variant, OPENAI_API_KEY, phase, openai_client, fm, messages,
                 upstream_calls, completion, mail_calls, mail_result,
                 response, email_logs>>

\* st.session_state.messages of the Streamlit client before a prompt: the
\* greeting it starts with, and the greeting followed by one exchange
Greeting == [role |-> "assistant", content |-> "greeting"]
ClientSessions ==
  { <<Greeting>>,
    <<Greeting, [role |-> "user", content |-> "earlier"],
      [role |-> "assistant", content |-> "answer"]>> }
ClientPrompts == {"write"}
ClientWindow == 10

\* the chat input of Email_assistant.py: the prompt is appended to the
\* session, the last ten messages of the session become the history, and
\* chat_with_ai posts the prompt with that history to /chat
chat_input ==
  /\ variant \in {"FastAPI", "main"} /\ phase = "serving" /\ pc = "idle"
  /\ \E session \in ClientSessions, prompt \in ClientPrompts :
       LET session_messages == Append(session, [role |-> "user", content |-> prompt])
           conversation_history == last(session_messages, ClientWindow)
       IN  request' = [kind |-> "chat", message |-> prompt,
                       conversation_history |-> conversation_history,
                       session |-> session]
  /\ pc' = "chat"
  /\ UNCHANGED <<ws_vars, conc_vars, max_tokens, st_banner, utcnow, variant, OPENAI_API_KEY, phase, openai_client, fm, messages,
                 upstream_calls, completion, mail_calls, mail_result,
                 response, email_logs>>

\* chat_with_ai up to the call of openai_client.chat.completions.create
chat_with_ai ==
  /\ pc = "chat"
  /\ IF ~openai_client
       THEN /\ response' = HTTPException("503", "OpenAI service not available")
            /\ pc' = "responded"
            /\ UNCHANGED <<messages, upstream_calls>>
       ELSE /\ messages' = chat_messages(variant, request)
            /\ upstream_calls' = upstream_calls + 1
            /\ pc' = "chat_create"
            /\ UNCHANGED response
  /\ UNCHANGED <<ws_vars, conc_vars, max_tokens, st_banner, utcnow, variant, OPENAI_API_KEY, phase, openai_client, fm, request,
                 completion, mail_calls, mail_result, email_logs>>

\* chat_with_ai calling the model again after a call that raised
chat_with_ai_retry ==
  /\ pc = "chat_create"
  /\ completion' \in {Raised} \cup {Text(r) : r \in ChatReplies}
  /\ IF completion'.kind = "text" \/ upstream_calls >= 2
       THEN /\ response' =
                 IF completion'.kind = "text"
                   THEN [status |-> "200", response |-> completion'.content,
                         tokens_used |-> "total_tokens"]
                   ELSE HTTPException("500", "AI service error")
            /\ pc' = "responded"
            /\ UNCHANGED upstream_calls
       ELSE /\ upstream_calls' = upstream_calls + 1
            /\ UNCHANGED <<pc, response>>
  /\ UNCHANGED <<ws_vars, conc_vars, max_tokens, st_banner, utcnow, variant, OPENAI_API_KEY, phase, openai_client, fm, request,
                 messages, mail_calls, mail_result, email_logs>>

\* chat_with_ai from the return of the call on: the call raised, or returned
\* a completion whose content is None (ChatResponse rejects it), or a text
chat_with_ai_return ==
  /\ pc = "chat_create"
  /\ completion' \in {Raised, NoContent} \cup {Text(r) : r \in ChatReplies}
  /\ response' =
       IF completion'.kind = "text"
         THEN [status |-> "200", response |-> completion'.content,
               tokens_used |-> "total_tokens"]
         ELSE HTTPException("500", "AI service error")
  /\ pc' = "responded"
  /\ UNCHANGED <<ws_vars, conc_vars, max_tokens, st_banner, utcnow, variant, OPENAI_API_KEY, phase, openai_client, fm, request,
                 messages, upstream_calls, mail_calls, mail_result,
                 email_logs>>

\* the response leaves; the worker takes the next request
send_response ==
  /\ pc = "responded"
  /\ pc' = "idle"
  /\ request' = NoRequest
  /\ response' = NoResponse
  /\ messages' = <<>>
  /\ upstream_calls' = 0
  /\ completion' = NoCompletion
  /\ mail_calls' = 0
  /\ mail_result' = "none"
  /\ max_tokens' = 0
  /\ st_banner' = "none"
  /\ UNCHANGED <<ws_vars, conc_vars, utcnow, variant, OPENAI_API_KEY, phase, openai_client, fm,
                 email_logs>>

(***************************************************************************)
(* POST /generate-email   (FastAPI.py 181-238, main.py 172-229)            *)
(***************************************************************************)
JSON_TAG == <<FENCE, "json">>

\* the text handed to json.loads: what stands between the markers of a
\* code block when the text has any (FastAPI.py 216-219, main.py 207-210)
clean(ai_response) ==
  IF contains(JSON_TAG, ai_response)
    THEN strip(split(split(ai_response, JSON_TAG)[2], <<FENCE>>)[1])
  ELSE IF contains(<<FENCE>>, ai_response)
    THEN strip(split(ai_response, <<FENCE>>)[2])
  ELSE ai_response

\* f"{email_type.replace('_', ' ').title()}"
type_title(email_type) == title(replace(email_type, "_", " "))

\* f"{email_type.replace('_', ' ').title()} - {recipient_name}"
fallback_subject(req) ==
  type_title(req.email_type) \o <<" ", "-", " ">> \o req.recipient_name

\* the defaults of email_json.get: "" and "" in FastAPI.py, the title-cased
\* type and the cleaned text in main.py
default_subject(v, req) ==
  IF v = "FastAPI" THEN JStr(<<>>) ELSE JStr(type_title(req.email_type))
default_body(v, cleaned) == IF v = "FastAPI" THEN JStr(<<>>) ELSE JStr(cleaned)

EmailResponse(subject, body, email_type) ==
  [status |-> "200", subject |-> subject, body |-> body, email_type |-> email_type]

\* generate_email from content.strip() to its return or raise, content the
\* text of the completion.  A decoded value that is no dict has no get
\* (AttributeError), and EmailResponse rejects a subject or body that is no
\* str (ValidationError); the outer except turns both into a 500.
interpret(v, req, content) ==
  LET ai_response == strip(content)
      cleaned == clean(ai_response)
      decoded == json_loads(cleaned)
  IN  IF ~decoded.ok
        THEN EmailResponse(fallback_subject(req), cleaned, req.email_type)
      ELSE IF decoded.val.t # "dict"
        THEN HTTPException("500", "Email generation error")
      ELSE
        LET subject == dict_get(decoded.val, <<"subject">>, default_subject(v, req))
            body == dict_get(decoded.val, <<"body">>, default_body(v, cleaned))
        IN  IF subject.t = "str" /\ body.t = "str"
              THEN EmailResponse(subject.s, body.s, req.email_type)
              ELSE HTTPException("500", "Email generation error")

\* a line of a user instruction: what it is about and the value put in it
line(label, value) == [label |-> label, value |-> value]

\* Python truth of an optional str: None and the empty str are false
truthy(v) == v \notin {None, ""}

\* the f-string prompt of generate_email: the heading carries the tone, the
\* Context line is written whatever the context, the directive asks for JSON
generate_prompt(req) ==
  << line("tone", req.tone), line("type", req.email_type),
     line("recipient", req.recipient_name), line("sender", req.sender_name),
     line("context", req.context), line("directive", "JSON object") >>

generate_messages(req) ==
  << [role |-> "system", content |-> "Return valid JSON only."],
     [role |-> "user", content |-> generate_prompt(req)] >>

receive_generate_email ==
  /\ variant \in {"FastAPI", "main"} /\ phase = "serving" /\ pc = "idle"
  /\ \E t \in EmailTypes, n \in RecipientNames, c \in Contexts :
       request' = [kind |-> "generate", email_type |-> t, recipient_name |-> n,
                   context |-> c, sender_name |-> "Your Name",
                   tone |-> "professional"]
  /\ pc' = "generate"
  /\ UNCHANGED <<ws_vars, conc_vars, max_tokens, st_banner, utcnow, variant, OPENAI_API_KEY, phase, openai_client, fm, messages,
                 upstream_calls, completion, mail_calls, mail_result,
                 response, email_logs>>

\* generate_email without the test of openai_client
generate_email_unguarded ==
  /\ pc = "generate"
  /\ messages' = generate_messages(request)
  /\ upstream_calls' = upstream_calls + 1
  /\ pc' = "generate_create"
  /\ UNCHANGED <<ws_vars, conc_vars, max_tokens, st_banner, utcnow, variant, OPENAI_API_KEY, phase, openai_client, fm, request,
                 completion, mail_calls, mail_result, response,
                 email_logs>>

\* generate_email up to the call of openai_client.chat.completions.create
generate_email ==
  /\ pc = "generate"
  /\ IF ~openai_client
       THEN /\ response' = HTTPException("503", "OpenAI service not available")
            /\ pc' = "responded"
            /\ UNCHANGED <<messages, upstream_calls>>
       ELSE /\ messages' = generate_messages(request)
            /\ upstream_calls' = upstream_calls + 1
            /\ pc' = "generate_create"
            /\ UNCHANGED response
  /\ UNCHANGED <<ws_vars, conc_vars, max_tokens, st_banner, utcnow, variant, OPENAI_API_KEY, phase, openai_client, fm, request,
                 completion, mail_calls, mail_result, email_logs>>

\* generate_email from the return of the call on: the call raised or its
\* content is None (None has no strip), or it returned a text
generate_email_return ==
  /\ pc = "generate_create"
  /\ completion' \in {Raised, NoContent} \cup {Text(raw) : raw \in RawTexts}
  /\ response' =
       IF completion'.kind = "text"
         THEN interpret(variant, request, completion'.content)
         ELSE HTTPException("500", "Email generation error")
  /\ pc' = "responded"
  /\ UNCHANGED <<ws_vars, conc_vars, max_tokens, st_banner, utcnow, variant, OPENAI_API_KEY, phase, openai_client, fm, request,
                 messages, upstream_calls, mail_calls, mail_result,
                 email_logs>>

(***************************************************************************)
(* POST /send-email   (FastAPI.py 241-267)                                 *)
(***************************************************************************)
EmailSendResponse(success, message) ==
  [status |-> "200", success |-> success, message |-> message]

\* the framework validates the body against EmailSendRequest: to_email is an
\* EmailStr, subject and body are str; a body that fails is answered 422 and
\* the handler is not called
receive_send_email ==
  /\ variant = "FastAPI" /\ phase = "serving" /\ pc = "idle"
  /\ \E to \in ToEmails, subj \in Subjects, b \in Bodies :
       /\ request' = [kind |-> "send", to_email |-> to, subject |-> subj, body |-> b]
       /\ IF EmailStr(to)
            THEN pc' = "send" /\ UNCHANGED response
            ELSE /\ pc' = "responded"
                 /\ response' = HTTPException("422", "value is not a valid email address")
  /\ UNCHANGED <<ws_vars, conc_vars, max_tokens, st_banner, utcnow, variant, OPENAI_API_KEY, phase, openai_client, fm, messages,
                 upstream_calls, completion, mail_calls, mail_result,
                 email_logs>>

\* send_email without the test of fm
send_email_unguarded ==
  /\ pc = "send"
  /\ mail_calls' = mail_calls + 1
  /\ pc' = "send_message"
  /\ UNCHANGED <<ws_vars, conc_vars, max_tokens, st_banner, utcnow, variant, OPENAI_API_KEY, phase, openai_client, fm, request,
                 messages, upstream_calls, completion, mail_result, response,
                 email_logs>>

\* send_email up to await fm.send_message(message)
send_email ==
  /\ pc = "send"
  /\ IF ~fm
       THEN /\ response' = EmailSendResponse(FALSE, "Email service not configured")
            /\ pc' = "responded"
            /\ UNCHANGED mail_calls
       ELSE /\ mail_calls' = mail_calls + 1
            /\ pc' = "send_message"
            /\ UNCHANGED response
  /\ UNCHANGED <<ws_vars, conc_vars, max_tokens, st_banner, utcnow, variant, OPENAI_API_KEY, phase, openai_client, fm, request,
                 messages, upstream_calls, completion, mail_result,
                 email_logs>>

\* send_email letting the exception of fm.send_message through
send_email_uncaught ==
  /\ pc = "send_message"
  /\ mail_result' \in {"sent", "raised"}
  /\ response' =
       IF mail_result' = "sent"
         THEN EmailSendResponse(TRUE, "Email sent successfully")
         ELSE HTTPException("500", "Internal Server Error")
  /\ pc' = "responded"
  /\ UNCHANGED <<ws_vars, conc_vars, max_tokens, st_banner, utcnow, variant, OPENAI_API_KEY, phase, openai_client, fm, request,
                 messages, upstream_calls, completion, mail_calls, email_logs>>

\* send_email from the end of fm.send_message on: it returned or it raised
\* the Send Email button of Email_assistant.py once /send-email has
\* answered: send_email returns status_code == 200, and the button shows
\* st.success with the chat message for True, st.error for False
send_email_button ==
  /\ pc = "responded" /\ request.kind = "send" /\ st_banner = "none"
  /\ LET success == response.status = "200"
     IN  st_banner' = IF success THEN "st.success" ELSE "st.error"
  /\ UNCHANGED <<ws_vars, conc_vars, max_tokens, utcnow, variant, OPENAI_API_KEY, phase, openai_client, fm, pc, request,
                 messages, upstream_calls, completion, mail_calls,
                 mail_result, response, email_logs>>

send_email_return ==
  /\ pc = "send_message"
  /\ mail_result' \in {"sent", "raised"}
  /\ response' =
       IF mail_result' = "sent"
         THEN EmailSendResponse(TRUE, "Email sent successfully")
         ELSE EmailSendResponse(FALSE, "Failed to send email")
  /\ pc' = "responded"
  /\ UNCHANGED <<ws_vars, conc_vars, max_tokens, st_banner, utcnow, variant, OPENAI_API_KEY, phase, openai_client, fm, request,
                 messages, upstream_calls, completion, mail_calls, email_logs>>

(***************************************************************************)
(* The EmailLog table   (crud.py 8-14, model.py 5-13, app.py 156-168)      *)
(***************************************************************************)
\* a create that adds the row twice
create_twice(logs, log_data) ==
  Append(Append(logs, [id |-> Len(logs) + 1] @@ log_data),
         [id |-> Len(logs) + 2] @@ log_data)

\* a create that writes over the newest row instead of adding one
create_in_place(logs, log_data) ==
  IF logs = <<>> THEN Append(logs, [id |-> 1] @@ log_data)
  ELSE [logs EXCEPT ![Len(logs)] = [id |-> Len(logs)] @@ log_data]

\* a create that gives every row the same id
create_same_id(logs, log_data) == Append(logs, [id |-> 1] @@ log_data)

\* EmailLogCRUD.create: add, commit, refresh; the id is the auto-increment
\* primary key
create(logs, log_data) == Append(logs, [id |-> Len(logs) + 1] @@ log_data)

\* the clock between two readings: it stands still or it has advanced
Tick == {utcnow} \cup (IF utcnow < MaxClock THEN {utcnow + 1} ELSE {})

\* the orders in which the rows of a result may come
Orderings(rows) ==
  {[i \in 1..Len(rows) |-> rows[f[i]]] :
     f \in {g \in [1..Len(rows) -> 1..Len(rows)] :
              \A i, j \in 1..Len(rows) : g[i] = g[j] => i = j}}

\* EmailLogCRUD.get_multi: select(EmailLog) with no ORDER BY and no LIMIT;
\* the database returns every row, in an order it is free to choose
get_multi(logs) == Orderings(logs)

\* a get that ignores the id and returns the first row
get_first(logs, id) == IF logs = <<>> THEN <<>> ELSE <<logs[1]>>

\* EmailLogCRUD.get: select ... where id == id, scalar_one_or_none(); the
\* value is <<row>> for the one row found and <<>> for None
get(logs, id) ==
  IF \E i \in 1..Len(logs) : logs[i].id = id
    THEN <<logs[CHOOSE i \in 1..Len(logs) : logs[i].id = id]>>
    ELSE <<>>

\* get_email_history: ORDER BY timestamp DESC LIMIT 10; rows of one
\* timestamp come in an order the database is free to choose
HistoryLimit == 10
get_email_history(logs) ==
  {SubSeq(r, 1, IF Len(r) > HistoryLimit THEN HistoryLimit ELSE Len(r)) :
     r \in {q \in Orderings(logs) :
              \A i \in 1..(Len(q) - 1) : q[i].timestamp >= q[i + 1].timestamp}}

\* save_to_database: INSERT with context or None, response_to or None; the
\* timestamp column defaults to CURRENT_TIMESTAMP
or_None(v) == IF v = "" THEN None ELSE v

save_to_database(logs, user_input, context, response_to, email_length, tone, generated_email) ==
  Append(logs,
         [id |-> Len(logs) + 1, user_input |-> user_input,
          context |-> or_None(context), response_to |-> or_None(response_to),
          length |-> email_length, tone |-> tone,
          generated_email |-> generated_email, timestamp |-> utcnow])

(***************************************************************************)
(* POST /   (routes.py 28-102)                                             *)
(***************************************************************************)
receive_routes_generate_email ==
  /\ variant = "routes" /\ phase = "serving" /\ pc = "idle"
  /\ Len(email_logs) < MaxLogs
  /\ \E r \in GenRequests : request' = [kind |-> "routes_generate"] @@ r
  /\ utcnow' \in Tick
  /\ pc' = "routes_generate"
  /\ UNCHANGED <<ws_vars, conc_vars, max_tokens, st_banner, variant, OPENAI_API_KEY, phase, openai_client, fm, messages,
                 upstream_calls, completion, mail_calls, mail_result,
                 response, email_logs>>

\* the values of length_tokens and max_tokens_map and the default of get
ShortTokens == 200
MediumTokens == 400
LongTokens == 600
DefaultTokens == 400

\* a lookup with no default: nothing for a length that is not a key
length_tokens_no_default(length) ==
  CASE length = "short" -> ShortTokens
    [] length = "medium" -> MediumTokens
    [] length = "long" -> LongTokens
    [] OTHER -> 0

\* length_tokens.get(request.length, 400) and max_tokens_map.get(email_length, 400)
length_tokens(length) ==
  CASE length = "short" -> ShortTokens
    [] length = "medium" -> MediumTokens
    [] length = "long" -> LongTokens
    [] OTHER -> DefaultTokens

\* prompt_parts: the input, the tone and the length, then the optional
\* lines, then the closing request for a complete email
routes_prompt(req) ==
  << line("user_input", req.user_input), line("tone", req.tone),
     line("length", req.length) >>
  \o (IF truthy(req.context) THEN <<line("context", req.context)>> ELSE <<>>)
  \o (IF truthy(req.response_to)
        THEN <<line("reply_to", req.response_to)>> ELSE <<>>)
  \o << line("directive", "complete email") >>

\* generate_email up to the call of open_ai_client.chat.completions.create
routes_generate_email ==
  /\ pc = "routes_generate"
  /\ max_tokens' = length_tokens(request.length)
  /\ messages' = << [role |-> "system", content |-> "system_prompt"],
                    [role |-> "user", content |-> routes_prompt(request)] >>
  /\ upstream_calls' = upstream_calls + 1
  /\ pc' = "routes_create"
  /\ UNCHANGED <<ws_vars, conc_vars, st_banner, utcnow, variant, OPENAI_API_KEY, phase, openai_client, fm, request,
                 completion, mail_calls, mail_result, response,
                 email_logs>>

\* generate_email from the return of the call on.  The call raised or its
\* content is None: 500.  Otherwise the stripped text is logged and
\* returned; crud create may raise at commit (no row) or at refresh (the
\* row is stored), and the except turns either into a 500.
routes_generate_email_return ==
  /\ pc = "routes_create"
  /\ completion' \in {Raised, NoContent} \cup {Text(t) : t \in GeneratedTexts}
  /\ IF completion'.kind # "text"
       THEN /\ response' = HTTPException("500", "Error generating email")
            /\ UNCHANGED email_logs
       ELSE LET generated_email == strip(completion'.content)
                log_entry == [user_input |-> request.user_input,
                              context |-> request.context,
                              response_to |-> request.response_to,
                              length |-> request.length,
                              tone |-> request.tone,
                              generated_email |-> generated_email,
                              created_at |-> utcnow]
            IN  \E db \in {"ok", "commit_raises", "refresh_raises"} :
                  /\ email_logs' = IF db = "commit_raises" THEN email_logs
                                   ELSE create(email_logs, log_entry)
                  /\ response' =
                       IF db = "ok"
                         THEN [status |-> "200", generated_email |-> generated_email]
                         ELSE HTTPException("500", "Error generating email")
  /\ pc' = "responded"
  /\ UNCHANGED <<ws_vars, conc_vars, max_tokens, st_banner, utcnow, variant, OPENAI_API_KEY, phase, openai_client, fm, request,
                 messages, upstream_calls, mail_calls, mail_result>>

(***************************************************************************)
(* POST / of routes.py served for several requests at once.  A handler     *)
(* runs without a break from its start to its first await, the commit in   *)
(* crud create; other handlers may run between its commit and its refresh  *)
(* and between its refresh and its return.                                 *)
(***************************************************************************)
\* the EmailLogCreate a handler builds from its own request and text
log_entry(h) ==
  [user_input |-> h_request[h].user_input, context |-> h_request[h].context,
   response_to |-> h_request[h].response_to, length |-> h_request[h].length,
   tone |-> h_request[h].tone, generated_email |-> h_text[h]]

\* generate_email from its start to await db.commit(): the blocking call of
\* the model, the strip, the log entry with created_at, db.add
conc_generate_email(h) ==
  /\ h_pc[h] = "none"
  /\ \E r \in GenRequests,
        result \in {Raised, NoContent} \cup {Text(t) : t \in GeneratedTexts} :
       /\ h_request' = [h_request EXCEPT ![h] = [kind |-> "routes_generate"] @@ r]
       /\ IF result.kind # "text"
            THEN /\ h_response' = [h_response EXCEPT ![h] =
                                     HTTPException("500", "Error generating email")]
                 /\ h_pc' = [h_pc EXCEPT ![h] = "done"]
                 /\ UNCHANGED <<h_text, h_log>>
            ELSE /\ h_text' = [h_text EXCEPT ![h] = strip(result.content)]
                 /\ h_log' = [h_log EXCEPT ![h] = <<[created_at |-> utcnow]>>]
                 /\ h_pc' = [h_pc EXCEPT ![h] = "commit"]
                 /\ UNCHANGED h_response
  /\ utcnow' \in Tick
  /\ UNCHANGED <<ws_vars, max_tokens, st_banner, variant, OPENAI_API_KEY,
                 phase, openai_client, fm, pc, request, messages,
                 upstream_calls, completion, mail_calls, mail_result,
                 response, email_logs>>

\* await db.commit() ends: the INSERT is done and the row has its id, or the
\* commit raised and the except answers 500
conc_commit(h) ==
  /\ h_pc[h] = "commit"
  /\ \E db \in {"ok", "commit_raises"} :
       IF db = "ok"
         THEN /\ email_logs' = create(email_logs, log_entry(h) @@ h_log[h][1])
              /\ h_log' = [h_log EXCEPT ![h] = <<email_logs'[Len(email_logs')]>>]
              /\ h_pc' = [h_pc EXCEPT ![h] = "refresh"]
              /\ UNCHANGED h_response
         ELSE /\ h_response' = [h_response EXCEPT ![h] =
                                  HTTPException("500", "Error generating email")]
              /\ h_log' = [h_log EXCEPT ![h] = <<>>]
              /\ h_pc' = [h_pc EXCEPT ![h] = "done"]
              /\ UNCHANGED email_logs
  /\ UNCHANGED <<ws_vars, max_tokens, st_banner, utcnow, variant,
                 OPENAI_API_KEY, phase, openai_client, fm, pc, request,
                 messages, upstream_calls, completion, mail_calls,
                 mail_result, response, h_request, h_text>>

\* await db.refresh(log) ends: the row is read back by its id and the
\* handler returns the text, or the refresh raised and the except answers 500
conc_refresh(h) ==
  /\ h_pc[h] = "refresh"
  /\ \E db \in {"ok", "refresh_raises"} :
       IF db = "ok"
         THEN /\ h_log' = [h_log EXCEPT ![h] = get(email_logs, h_log[h][1].id)]
              /\ h_response' = [h_response EXCEPT ![h] =
                                  [status |-> "200", generated_email |-> h_text[h]]]
         ELSE /\ h_response' = [h_response EXCEPT ![h] =
                                  HTTPException("500", "Error generating email")]
              /\ UNCHANGED h_log
  /\ h_pc' = [h_pc EXCEPT ![h] = "done"]
  /\ UNCHANGED <<ws_vars, http_vars, h_request, h_text>>

(***************************************************************************)
(* GET /   (routes.py 108-111) and EmailLogCRUD.get (crud.py 22-26)        *)
(***************************************************************************)
\* read_logs returns what get_multi gives
read_logs ==
  /\ variant = "routes" /\ phase = "serving" /\ pc = "idle"
  /\ request' = [kind |-> "read_logs"]
  /\ \E logs \in get_multi(email_logs) :
       response' = [status |-> "200", logs |-> logs]
  /\ pc' = "responded"
  /\ UNCHANGED <<ws_vars, conc_vars, max_tokens, st_banner, utcnow, variant, OPENAI_API_KEY, phase,
                 openai_client, fm, messages, upstream_calls, completion,
                 mail_calls, mail_result, email_logs>>

\* the ids a caller may ask for: those assigned so far and others
LogIds == 0..(MaxLogs + 2)

\* a call of crud_email_logs.get(db, id)
crud_get ==
  /\ variant = "routes" /\ phase = "serving" /\ pc = "idle"
  /\ \E id \in LogIds :
       /\ request' = [kind |-> "get", id |-> id]
       /\ response' = [status |-> "returned", log |-> get(email_logs, id)]
  /\ pc' = "responded"
  /\ UNCHANGED <<ws_vars, conc_vars, max_tokens, st_banner, utcnow, variant, OPENAI_API_KEY, phase,
                 openai_client, fm, messages, upstream_calls, completion,
                 mail_calls, mail_result, email_logs>>

(***************************************************************************)
(* The form of app.py   (app.py 186-232, 318-354)                          *)
(***************************************************************************)
startswith_cross(text) == text # <<>> /\ Head(text) = CROSS

\* the form is submitted.  With no user_input st.error is shown and nothing
\* else happens; with no OPENAI_API_KEY generate_email_with_openai returns
\* its error text without a call; otherwise it calls the model
\* user_prompt: the request, the optional lines, then tone and length; no
\* line about the form of the answer
app_prompt(f) ==
  << line("user_input", f.user_input) >>
  \o (IF truthy(f.context) THEN <<line("context", f.context)>> ELSE <<>>)
  \o (IF truthy(f.response_to)
        THEN <<line("reply_to", f.response_to)>> ELSE <<>>)
  \o << line("tone", f.tone), line("length", f.length) >>

submit_email_form ==
  /\ variant = "app" /\ phase = "serving" /\ pc = "idle"
  /\ Len(email_logs) < MaxLogs
  /\ \E f \in FormInputs :
       /\ request' = [kind |-> "form"] @@ f
       /\ IF f.user_input = ""
            THEN /\ response' = [status |-> "st.error"]
                 /\ pc' = "responded"
                 /\ UNCHANGED <<upstream_calls, messages, max_tokens>>
          ELSE IF OPENAI_API_KEY = ""
            THEN /\ response' = [status |-> "rerun",
                                 generated_email |-> <<CROSS, "no", "key">>]
                 /\ pc' = "responded"
                 /\ UNCHANGED <<upstream_calls, messages, max_tokens>>
          ELSE /\ max_tokens' = length_tokens(f.length)
               /\ messages' = << [role |-> "system", content |-> "system_prompt"],
                                 [role |-> "user", content |-> app_prompt(f)] >>
               /\ upstream_calls' = upstream_calls + 1
               /\ pc' = "form_create"
               /\ UNCHANGED response
  /\ utcnow' \in Tick
  /\ UNCHANGED <<ws_vars, conc_vars, st_banner, variant, OPENAI_API_KEY, phase, openai_client, fm,
                 completion, mail_calls, mail_result, email_logs>>

\* from the return of the call on: generate_email_with_openai returns the
\* stripped text, or its error text when the call raised or the content is
\* None; the row is saved unless the text starts with the cross mark
submit_email_form_return ==
  /\ pc = "form_create"
  /\ completion' \in {Raised, NoContent} \cup {Text(t) : t \in GeneratedTexts}
  /\ LET generated_email ==
           IF completion'.kind = "text" THEN strip(completion'.content)
           ELSE <<CROSS, "error">>
     IN  /\ email_logs' =
              IF ~startswith_cross(generated_email)
                THEN save_to_database(email_logs, request.user_input,
                                      request.context, request.response_to,
                                      request.length, request.tone, generated_email)
                ELSE email_logs
         /\ response' = [status |-> "rerun", generated_email |-> generated_email]
  /\ pc' = "responded"
  /\ UNCHANGED <<ws_vars, conc_vars, max_tokens, st_banner, utcnow, variant, OPENAI_API_KEY, phase, openai_client, fm, request,
                 messages, upstream_calls, mail_calls, mail_result>>

\* the sidebar of app.py: a run of the script shows get_email_history()
render_history ==
  /\ variant = "app" /\ phase = "serving" /\ pc = "idle"
  /\ request' = [kind |-> "history"]
  /\ \E history \in get_email_history(email_logs) :
       response' = [status |-> "rendered", history |-> history]
  /\ pc' = "responded"
  /\ UNCHANGED <<ws_vars, conc_vars, max_tokens, st_banner, utcnow, variant, OPENAI_API_KEY, phase,
                 openai_client, fm, messages, upstream_calls, completion,
                 mail_calls, mail_result, email_logs>>

(***************************************************************************)
(* WS /ws   (FastAPI.py 332-382)                                           *)
(***************************************************************************)
Range(seq) == {seq[i] : i \in 1..Len(seq)}

\* a removal that pops the end of the list whatever the websocket
remove_last(conns, w) == SubSeq(conns, 1, Len(conns) - 1)

\* list.remove: the first occurrence goes
remove(conns, w) ==
  LET i == CHOOSE j \in 1..Len(conns) :
             conns[j] = w /\ \A l \in 1..(j - 1) : conns[l] # w
  IN  SubSeq(conns, 1, i - 1) \o SubSeq(conns, i + 1, Len(conns))

\* a disconnect that drops the head of the list whatever the websocket
disconnect_head(conns, w) == IF conns = <<>> THEN conns ELSE Tail(conns)

\* ConnectionManager.disconnect
disconnect(conns, w) == IF w \in Range(conns) THEN remove(conns, w) ELSE conns

NOTICE == "OpenAI service is not available. Please check configuration."

\* the message the handler holds in data: the last one received
in_hand(w) == Len(ws_outcome[w])

\* what becomes of the message in hand
settle(w, outcome) == [ws_outcome EXCEPT ![w][in_hand(w)] = outcome]

\* a send that goes out twice
send_text_twice(sent, message) == Append(Append(sent, message), message)

\* websocket.send_text has put the message on the wire
send_text(sent, message) == Append(sent, message)

\* a connect that appends the websocket twice
manager_connect_twice(w) ==
  /\ ws_pc[w] = "none"
  /\ IF ws_alive[w]
       THEN /\ active_connections' = Append(Append(active_connections, w), w)
            /\ ws_pc' = [ws_pc EXCEPT ![w] = "receive"]
       ELSE /\ ws_pc' = [ws_pc EXCEPT ![w] = "done"]
            /\ UNCHANGED active_connections
  /\ UNCHANGED <<http_vars, conc_vars, ws_alive, ws_outcome, ws_sent, ws_reply>>

\* manager.connect: await websocket.accept(), then append.  With the peer
\* gone accept raises, outside the try of websocket_endpoint: the handler
\* ends without having registered the websocket
manager_connect(w) ==
  /\ ws_pc[w] = "none"
  /\ IF ws_alive[w]
       THEN /\ active_connections' = Append(active_connections, w)
            /\ ws_pc' = [ws_pc EXCEPT ![w] = "receive"]
       ELSE /\ ws_pc' = [ws_pc EXCEPT ![w] = "done"]
            /\ UNCHANGED active_connections
  /\ UNCHANGED <<http_vars, conc_vars, ws_alive, ws_outcome, ws_sent, ws_reply>>

\* an except branch that answers the error and stays in the loop
except_reply(w) ==
  /\ ws_pc' = [ws_pc EXCEPT ![w] = "send"]
  /\ ws_reply' = [ws_reply EXCEPT ![w] = NOTICE]
  /\ UNCHANGED active_connections

\* except WebSocketDisconnect / except Exception: manager.disconnect and the
\* handler ends
except_Exception(w) ==
  /\ active_connections' = disconnect(active_connections, w)
  /\ ws_pc' = [ws_pc EXCEPT ![w] = "done"]
  /\ ws_reply' = [ws_reply EXCEPT ![w] = "none"]

\* one turn of the loop up to the send: receive_text raises
\* WebSocketDisconnect when the peer is gone and KeyError on a frame that is
\* not text; with no client the notice is the reply; else the model is
\* called, a blocking call, which raises or gives a content, maybe None
websocket_endpoint(w) ==
  /\ ws_pc[w] = "receive"
  /\ IF ~ws_alive[w]
       THEN except_Exception(w) /\ UNCHANGED ws_outcome
     ELSE
       /\ Len(ws_outcome[w]) < MaxMessages
       /\ \E frame \in {"text", "bytes"} :
            IF frame = "bytes"
              THEN except_Exception(w) /\ UNCHANGED ws_outcome
            ELSE IF ~openai_client
              THEN /\ ws_outcome' = [ws_outcome EXCEPT ![w] = Append(@, "pending")]
                   /\ ws_reply' = [ws_reply EXCEPT ![w] = NOTICE]
                   /\ ws_pc' = [ws_pc EXCEPT ![w] = "send"]
                   /\ UNCHANGED active_connections
            ELSE \E result \in {Raised, NoContent} \cup {Text(r) : r \in ChatReplies} :
                   IF result = Raised
                     THEN /\ ws_outcome' = [ws_outcome EXCEPT ![w] = Append(@, "error")]
                          /\ except_Exception(w)
                     ELSE /\ ws_outcome' = [ws_outcome EXCEPT ![w] = Append(@, "pending")]
                          /\ ws_reply' = [ws_reply EXCEPT ![w] =
                                            IF result = NoContent THEN None
                                            ELSE result.content]
                          /\ ws_pc' = [ws_pc EXCEPT ![w] = "send"]
                          /\ UNCHANGED active_connections
  /\ UNCHANGED <<http_vars, conc_vars, ws_alive, ws_sent>>

\* manager.send_personal_message: send_text raises when the peer is gone or
\* the message is None; the bare except disconnects the websocket from the
\* registry and returns, and the loop of the handler goes on
send_personal_message(w) ==
  /\ ws_pc[w] = "send"
  /\ IF ws_alive[w] /\ ws_reply[w] # None
       THEN /\ ws_sent' = [ws_sent EXCEPT ![w] =
                             send_text(@, [k |-> in_hand(w), text |-> ws_reply[w]])]
            /\ ws_outcome' = settle(w, "replied")
            /\ UNCHANGED active_connections
       ELSE /\ active_connections' = disconnect(active_connections, w)
            /\ ws_outcome' = settle(w, "send_failed")
            /\ UNCHANGED ws_sent
  /\ ws_reply' = [ws_reply EXCEPT ![w] = "none"]
  /\ ws_pc' = [ws_pc EXCEPT ![w] = "receive"]
  /\ UNCHANGED <<http_vars, conc_vars, ws_alive>>

\* the peer of a websocket goes away
peer_closes(w) ==
  /\ ws_pc[w] # "done" /\ ws_alive[w]
  /\ ws_alive' = [ws_alive EXCEPT ![w] = FALSE]
  /\ UNCHANGED <<http_vars, conc_vars, active_connections, ws_pc, ws_outcome, ws_sent, ws_reply>>

Next ==
  \/ FastAPI_module_init
  \/ main_startup_event
  \/ routes_module_init
  \/ init_database
  \/ health_check
  \/ get_info
  \/ receive_chat
  \/ chat_input
  \/ chat_with_ai
  \/ chat_with_ai_return
  \/ receive_generate_email
  \/ generate_email
  \/ generate_email_return
  \/ receive_send_email
  \/ send_email
  \/ send_email_return
  \/ send_email_button
  \/ receive_routes_generate_email
  \/ routes_generate_email
  \/ routes_generate_email_return
  \/ read_logs
  \/ crud_get
  \/ submit_email_form
  \/ submit_email_form_return
  \/ render_history
  \/ send_response

Spec == Init /\ [][Next]_vars

\* FastAPI.py serving its websockets: the state after the module level
\* initialisation, and the steps of the /ws handlers
WsInit ==
  /\ variant = "FastAPI"
  /\ OPENAI_API_KEY \in ApiKeys
  /\ phase = "serving"
  /\ openai_client \in {b \in BOOLEAN : b => startswith_sk(OPENAI_API_KEY)}
  /\ fm \in BOOLEAN
  /\ pc = "idle"
  /\ request = NoRequest
  /\ messages = <<>>
  /\ upstream_calls = 0
  /\ completion = NoCompletion
  /\ mail_calls = 0
  /\ mail_result = "none"
  /\ response = NoResponse
  /\ email_logs = <<>>
  /\ utcnow = 0
  /\ max_tokens = 0
  /\ st_banner = "none"
  /\ NoWebsockets
  /\ NoHandlers

WsNext ==
  \E w \in Websockets :
    \/ manager_connect(w)
    \/ websocket_endpoint(w)
    \/ send_personal_message(w)
    \/ peer_closes(w)

WsSpec == WsInit /\ [][WsNext]_vars

\* routes.py serving several POST / at once: the state after its module
\* level initialisation with a key, and the steps of the handlers
ConcInit ==
  /\ variant = "routes"
  /\ OPENAI_API_KEY \in ApiKeys \ {""}
  /\ phase = "serving"
  /\ openai_client = TRUE
  /\ fm = FALSE
  /\ pc = "idle"
  /\ request = NoRequest
  /\ messages = <<>>
  /\ upstream_calls = 0
  /\ completion = NoCompletion
  /\ mail_calls = 0
  /\ mail_result = "none"
  /\ response = NoResponse
  /\ email_logs = <<>>
  /\ utcnow = 0
  /\ max_tokens = 0
  /\ st_banner = "none"
  /\ NoWebsockets
  /\ NoHandlers

ConcNext ==
  \E h \in Handlers :
    \/ conc_generate_email(h)
    \/ conc_commit(h)
    \/ conc_refresh(h)

ConcSpec == ConcInit /\ [][ConcNext]_vars

\* the /ws handlers together with HTTP handlers of FastAPI.py: those that
\* only report, and /send-email, the one HTTP handler that awaits and so can
\* be overtaken by a step of a /ws handler before it returns
WsHttpNext ==
  \/ WsNext
  \/ health_check
  \/ get_info
  \/ receive_send_email
  \/ send_email
  \/ send_email_return
  \/ send_response

WsHttpSpec == WsInit /\ [][WsHttpNext]_vars

(***************************************************************************)
(* Properties                                                              *)
(***************************************************************************)
Min(a, b) == IF a < b THEN a ELSE b

\* the handler of the request in hand has called the model
ChatCalled == request.kind = "chat" /\ upstream_calls = 1
\* the model answered the generate-email request in hand with a text
GenerateAnswered ==
  pc = "responded" /\ request.kind = "generate" /\ completion.kind = "text"

\* what a history element becomes in messages
Forwarded(turn) ==
  [role |-> IF "role" \in DOMAIN turn THEN turn.role ELSE "user",
   content |-> IF "content" \in DOMAIN turn THEN turn.content ELSE ""]

\* C1: the turns /chat forwards from the history h are the last min(K, len(h))
\* turns of h in their order, K = 10 in FastAPI.py and 5 in main.py; with
\* len(h) > K exactly K turns are forwarded.
C1_WindowIsLastK ==
  ChatCalled =>
    LET h == request.conversation_history
        K == IF variant = "FastAPI" THEN HistoryWindowFastAPI ELSE HistoryWindowMain
        n == Min(K, Len(h))
        forwarded == SubSeq(messages, 2, Len(messages) - 1)
    IN  /\ Len(forwarded) = n
        /\ \A i \in 1..n : forwarded[i] = Forwarded(h[Len(h) - n + i])
        /\ (Len(h) > K => Len(forwarded) = K)

\* a history longer than the window of FastAPI.py, its first two turns
\* different, has been forwarded
C1_Witness ==
  /\ variant = "FastAPI" /\ pc = "chat_create"
  /\ Len(request.conversation_history) > HistoryWindowFastAPI
  /\ request.conversation_history[1] # request.conversation_history[2]
  /\ Len(messages) = HistoryWindowFastAPI + 2

\* C2: whatever text the model returned, the subject and the body that
\* /generate-email returns are both non-empty.
C2_SubjectAndBodyNonEmpty ==
  (GenerateAnswered /\ response.status = "200") =>
    response.subject # <<>> /\ response.body # <<>>

\* C3: once the model has returned a text, /generate-email answers with a
\* normal response, never a 500, whatever the shape of the text.
C3_NoErrorFromTextShape == GenerateAnswered => response.status = "200"

\* the completion is a JSON object with str subject a and str body b inside
\* a code block, tagged json or untagged
FencedObject(raw, a, b) ==
  LET obj == Object2(Member("subject", Q(a)), Member("body", Q(b)))
  IN  \/ raw = <<FENCE, "json", "\n">> \o obj \o <<"\n", FENCE>>
      \/ raw = <<FENCE, "\n">> \o obj \o <<"\n", FENCE>>

\* C4: for a JSON object {"subject": A, "body": B} inside a code block,
\* tagged json or untagged, /generate-email returns subject A and body B.
C4_FenceIsTransparent ==
  GenerateAnswered =>
    \A a, b \in StringTexts :
      FencedObject(completion.content, a, b) =>
        /\ response.status = "200"
        /\ response.subject = a
        /\ response.body = b

\* the text is not (a code block around) a JSON document
ExtractionFails(raw) == ~json_loads(clean(strip(raw))).ok

\* C5: when extraction fails the subject is the title-cased type, " - " and
\* the recipient name, and the body is the text of the model verbatim, not a
\* part of it.  Read in favour of the handler: the whitespace around the
\* text, which content.strip() always drops, does not count.
C5_FallbackBodyIsRawText ==
  (GenerateAnswered /\ ExtractionFails(completion.content)) =>
    /\ response.status = "200"
    /\ response.subject = fallback_subject(request)
    /\ response.body \in {completion.content, strip(completion.content)}

\* C6: with no language-model client, /chat and /generate-email answer 503
\* and no call to the model is made.
C6_Unconfigured503NoCall ==
  (variant \in {"FastAPI", "main"} /\ phase = "serving" /\ ~openai_client) =>
    /\ upstream_calls = 0
    /\ pc \notin {"chat_create", "generate_create"}
    /\ (pc = "responded" /\ request.kind \in {"chat", "generate"}) =>
         response.status = "503"

C6_Witness ==
  /\ ~openai_client /\ pc = "responded" /\ request.kind = "generate"
  /\ response.status = "503" /\ upstream_calls = 0

\* C7: a failed call of the model is answered with a 500 that carries a
\* message, and no handler calls the model more than once for a request.
C7_UpstreamFailure500NoRetry ==
  /\ upstream_calls <= 1
  /\ (/\ pc = "responded"
      /\ request.kind \in {"chat", "generate", "routes_generate"}
      /\ completion = Raised) =>
       response.status = "500" /\ response.detail # ""

C7_Witness ==
  /\ pc = "responded" /\ request.kind = "chat" /\ completion = Raised
  /\ response.status = "500" /\ upstream_calls = 1

\* C8: with no mail client, /send-email answers every valid request with
\* success = false and a message, does not raise and does not call
\* fm.send_message.
C8_UnconfiguredMailFails ==
  (variant = "FastAPI" /\ phase = "serving" /\ ~fm) =>
    /\ mail_calls = 0
    /\ pc # "send_message"
    /\ (pc = "responded" /\ request.kind = "send" /\ EmailStr(request.to_email)) =>
         /\ response.status = "200"
         /\ response.success = FALSE
         /\ response.message # ""

C8_Witness ==
  /\ ~fm /\ pc = "responded" /\ request.kind = "send"
  /\ EmailStr(request.to_email) /\ response.status = "200" /\ ~response.success

\* C9: with a mail client, a send that fails is answered with a normal
\* response, success = false and a message; success = true is answered
\* only when fm.send_message returned.
C9_SendFailureIsReported ==
  (pc = "responded" /\ request.kind = "send" /\ EmailStr(request.to_email)) =>
    /\ response.status = "200"
    /\ (mail_result = "raised" =>
          response.success = FALSE /\ response.message # "")
    /\ (response.success = TRUE => fm /\ mail_calls = 1 /\ mail_result = "sent")

C9_Witness ==
  /\ fm /\ pc = "responded" /\ request.kind = "send" /\ mail_result = "raised"
  /\ response.status = "200" /\ ~response.success

\* the fields of a request as an EmailLog row without its id
RowOf(req, context, response_to, generated_email) ==
  [user_input |-> req.user_input, context |-> context,
   response_to |-> response_to, length |-> req.length, tone |-> req.tone,
   generated_email |-> generated_email]

\* the table gained exactly the one row r
OneRowAdded(r) ==
  /\ Len(email_logs') = Len(email_logs) + 1
  /\ SubSeq(email_logs', 1, Len(email_logs)) = email_logs
  /\ email_logs'[Len(email_logs')].id = Len(email_logs) + 1
  /\ \A field \in DOMAIN r : email_logs'[Len(email_logs')][field] = r[field]

\* a generate-email handler of any of the programs returns
GenerateReturns ==
  /\ pc \in {"generate_create", "routes_create", "form_create"}
  /\ pc' = "responded"

\* the generate-email request that returns has succeeded: it is answered
\* 200, or in app.py the text shown does not start with the cross mark
GenerateSucceeds ==
  \/ response'.status = "200"
  \/ response'.status = "rerun" /\ ~startswith_cross(response'.generated_email)

RoutesGenerated ==
  /\ variant = "routes" /\ pc = "responded"
  /\ request.kind = "routes_generate" /\ completion.kind = "text"

\* C11: once the email text has been generated, the generate-email handler
\* returns it to the caller whether or not the log row could be stored; a
\* storage failure never makes the response an error.
C11_StorageFailureKeepsResponse ==
  RoutesGenerated =>
    /\ response.status = "200"
    /\ response.generated_email = strip(completion.content)

Reverse(rows) == [i \in 1..Len(rows) |-> rows[Len(rows) + 1 - i]]

\* C12: listing after N creations returns min(N, L) records, the most
\* recently created first; with L >= N these are the N records, newest first.
\* email_logs holds the rows in creation order; GET / of routes.py takes no
\* limit, the history of app.py has the limit HistoryLimit.
C12_ListIsNewestFirst ==
  /\ (pc = "responded" /\ request.kind = "read_logs") =>
       response.logs = Reverse(email_logs)
  /\ (pc = "responded" /\ request.kind = "history") =>
       response.history =
         SubSeq(Reverse(email_logs), 1, Min(Len(email_logs), HistoryLimit))

\* C13: every stored record has an id and a creation timestamp, the ids are
\* unique and strictly increasing in creation order, get(id) for an id that a
\* create assigned returns exactly the record created with it, and get(id)
\* for an id never assigned returns None (the empty result).
C13_CreateThenGet ==
  /\ \A i \in 1..Len(email_logs) :
       /\ "id" \in DOMAIN email_logs[i]
       /\ variant = "routes" => email_logs[i].created_at \in 0..utcnow
       /\ variant = "app" => email_logs[i].timestamp \in 0..utcnow
       /\ \A j \in 1..Len(email_logs) :
            i < j => email_logs[i].id < email_logs[j].id
  /\ (pc = "responded" /\ request.kind = "get") =>
       /\ \A i \in 1..Len(email_logs) :
            email_logs[i].id = request.id => response.log = <<email_logs[i]>>
       /\ (\A i \in 1..Len(email_logs) : email_logs[i].id # request.id) =>
            response.log = <<>>

\* get(2) has returned the second of two records created from different
\* requests
C13_Witness ==
  /\ pc = "responded" /\ request.kind = "get" /\ request.id = Len(email_logs)
  /\ Len(email_logs) = MaxLogs
  /\ response.log = <<email_logs[Len(email_logs)]>>
  /\ email_logs[Len(email_logs)].user_input # email_logs[1].user_input

\* C14: a /chat request with an empty message is rejected before any call of
\* the model; stated here by its weakest part, that no call is made for it.
C14_EmptyMessageRejected ==
  (request.kind = "chat" /\ request.message = "") => upstream_calls = 0

\* C15: a /send-email request with a malformed address, an empty subject or
\* an empty body is rejected before fm.send_message is called.
C15_InvalidSendRejected ==
  (/\ request.kind = "send"
   /\ \/ ~EmailStr(request.to_email)
      \/ request.subject = ""
      \/ request.body = "") => mail_calls = 0

\* C16: GET /health always answers, and its flags agree with the handlers:
\* /chat and /generate-email answer 503 exactly when openai_available is
\* false, and /send-email answers "not configured" without a send exactly
\* when email_configured is false.
C16_HealthAgreesWithHandlers ==
  [][/\ (pc = "idle" /\ request'.kind = "health") =>
          response'.status = "200" /\ response'.health = "healthy"
     /\ (pc \in {"chat", "generate"} /\ pc' # pc) =>
          ((response'.status = "503") <=> ~HealthResponse.openai_available)
     /\ (pc = "send" /\ pc' # pc) =>
          ((/\ response' = EmailSendResponse(FALSE, "Email service not configured")
            /\ mail_calls' = 0)
           <=> ~HealthResponse.email_configured)]_vars

\* /health of FastAPI.py has reported a missing client and a configured mail
C16_Witness ==
  /\ variant = "FastAPI" /\ pc = "responded" /\ request.kind = "health"
  /\ ~response.openai_available /\ response.email_configured

\* C17: with no OPENAI_API_KEY the process still comes up, and generation
\* requests are answered with a message that the service is unavailable.
C17_StartsWithoutCredential ==
  OPENAI_API_KEY = "" =>
    /\ phase # "aborted"
    /\ (pc = "responded" /\ request.kind \in {"chat", "generate"}) =>
         response.status = "503"
    /\ (pc = "responded" /\ request.kind = "form" /\ request.user_input # "") =>
         startswith_cross(response.generated_email)

\* the step is a send to w that failed
SendFails(w) ==
  /\ ws_pc[w] = "send" /\ ws_pc'[w] = "receive"
  /\ ws_outcome'[w][in_hand(w)] = "send_failed"

\* the step ends the handler of w
HandlerEnds(w) == ws_pc[w] # "done" /\ ws_pc'[w] = "done"

\* C18: a websocket enters active_connections exactly when its connect
\* completes; it leaves on disconnect, on a failed send to it and on any
\* error of its handler, and only then; once its handler has ended it is
\* not in the list.
C18_RegistryFollowsHandlers ==
  [][\A w \in Websockets :
       /\ (w \notin Range(active_connections) /\ w \in Range(active_connections'))
            <=> (ws_pc[w] = "none" /\ ws_pc'[w] = "receive")
       /\ (w \in Range(active_connections) /\ w \notin Range(active_connections'))
            => (HandlerEnds(w) \/ SendFails(w))
       /\ (HandlerEnds(w) \/ SendFails(w)) => w \notin Range(active_connections')
       /\ ws_pc'[w] \in {"none", "done"} => w \notin Range(active_connections')]_vars

\* the handler of ws2 has ended on an error of the model call and left the
\* list, in which ws1, connected before it, remains
C18_Witness ==
  /\ ws_pc["ws2"] = "done" /\ ws_outcome["ws2"] = <<"error">>
  /\ active_connections = <<"ws1">>

\* C19: on each connection the messages are handled one at a time: every
\* message but the last received is settled (replied to, or its send failed,
\* or the handler ended on it), each message has at most one reply, and the
\* replies went out in the order of the messages.
C19_OneMessageAtATime ==
  \A w \in Websockets :
    /\ \A k \in 1..(Len(ws_outcome[w]) - 1) : ws_outcome[w][k] # "pending"
    /\ (ws_outcome[w] # <<>> /\ ws_outcome[w][in_hand(w)] = "pending")
         => ws_pc[w] = "send"
    /\ \A i \in 1..Len(ws_sent[w]) :
         /\ ws_sent[w][i].k \in 1..Len(ws_outcome[w])
         /\ ws_outcome[w][ws_sent[w][i].k] = "replied"
         /\ \A j \in 1..Len(ws_sent[w]) : i < j => ws_sent[w][i].k < ws_sent[w][j].k

\* ws1 has had both of its messages replied to, in order
C19_Witness ==
  /\ ws_outcome["ws1"] = <<"replied", "replied">>
  /\ Len(ws_sent["ws1"]) = MaxMessages
  /\ ws_sent["ws1"][1].k < ws_sent["ws1"][MaxMessages].k

\* the step is a turn of the loop of w that received a message
Receives(w) == Len(ws_outcome'[w]) = Len(ws_outcome[w]) + 1

\* C20: when the call of the model fails on a message the handler ends, the
\* websocket leaves the list and nothing is sent for that message; when
\* there is no client, each message is answered with the notice (unless the
\* peer has gone) and the websocket stays open and in the list.
C20_ErrorDropsUnconfiguredStays ==
  [][\A w \in Websockets :
       /\ (Receives(w) /\ ws_outcome'[w][in_hand(w) + 1] = "error") =>
            /\ openai_client
            /\ ws_pc'[w] = "done"
            /\ w \notin Range(active_connections')
            /\ ws_sent' = ws_sent
       /\ (Receives(w) /\ openai_client /\ ws_pc'[w] = "done") =>
            \A i \in 1..Len(ws_sent'[w]) : ws_sent'[w][i].k # in_hand(w) + 1
       /\ (Receives(w) /\ ~openai_client) =>
            /\ ws_pc'[w] = "send" /\ ws_reply'[w] = NOTICE
            /\ w \in Range(active_connections')
       /\ (ws_pc[w] = "send" /\ ws_pc'[w] # "send" /\ ~openai_client /\ ws_alive[w]) =>
            /\ ws_sent'[w] = Append(ws_sent[w], [k |-> in_hand(w), text |-> NOTICE])
            /\ ws_pc'[w] = "receive"
            /\ w \in Range(active_connections')]_vars

\* with a client, the handler of ws1 has ended on a failed call for its
\* second message after replying to its first
C20_Witness ==
  /\ openai_client /\ ws_pc["ws1"] = "done"
  /\ ws_outcome["ws1"] = <<"replied", "error">>
  /\ Len(ws_sent["ws1"]) = 1
  /\ "ws1" \notin Range(active_connections)

\* the list without w
Others(conns, w) == SelectSeq(conns, LAMBDA x : x # w)

C22_LogStoreAppendOnly ==
  [][/\ Len(email_logs') >= Len(email_logs)
     /\ \A i \in 1..Len(email_logs) : email_logs'[i] = email_logs[i]]_vars

\* routes.py has listed a full table and then stored nothing more
C22_Witness ==
  /\ variant = "routes" /\ pc = "responded" /\ request.kind = "read_logs"
  /\ Len(email_logs) = MaxLogs
  /\ email_logs[1].user_input # email_logs[MaxLogs].user_input

\* the handlers whose row is in the table
Stored == {h \in Handlers : h_pc[h] \in {"refresh", "done"} /\ h_log[h] # <<>>}

\* C23: however N generate-email requests served at once interleave, the
\* table gains one row for each that stored one, N rows when all N succeed,
\* their ids pairwise distinct, and the row of each request holds the
\* fields and the text of that request and of no other.
C23_ConcurrentCreatesKeepRows ==
  /\ Len(email_logs) = Cardinality(Stored)
  /\ \A i, j \in 1..Len(email_logs) :
       i # j => email_logs[i].id # email_logs[j].id
  /\ \A h \in Stored :
       LET row == h_log[h][1]
       IN  /\ get(email_logs, row.id) = <<row>>
           /\ \A field \in {"user_input", "context", "response_to", "length", "tone"} :
                row[field] = h_request[h][field]
           /\ row.generated_email = h_text[h]
           /\ \A g \in Stored \ {h} : h_log[g][1].id # row.id
  /\ \A h \in Handlers :
       h_response[h].status = "200" =>
         h \in Stored /\ h_response[h].generated_email = h_log[h][1].generated_email
  /\ (\A h \in Handlers : h_response[h].status = "200") =>
       Len(email_logs) = Cardinality(Handlers)

\* two requests with different fields have both succeeded, and the one that
\* started later committed first
C23_Witness ==
  /\ \A h \in Handlers : h_pc[h] = "done" /\ h_response[h].status = "200"
  /\ h_request["h1"].user_input # h_request["h2"].user_input
  /\ h_text["h1"] # h_text["h2"]
  /\ Len(email_logs) = Cardinality(Handlers)
  /\ email_logs[1].created_at > email_logs[Len(email_logs)].created_at

\* C24: the list /chat sends to the model is the system instruction, then
\* the windowed turns of the history in their order, each with its own role
\* (user when it has none) and its own content (empty when it has none), then
\* the new message with role user; it has min(K, len(history)) + 2 elements.
C24_ChatMessageList ==
  (request.kind = "chat" /\ upstream_calls >= 1) =>
    LET h == request.conversation_history
        K == IF variant = "FastAPI" THEN HistoryWindowFastAPI ELSE HistoryWindowMain
        n == Min(K, Len(h))
    IN  /\ Len(messages) = n + 2
        /\ messages[1] = [role |-> "system", content |-> SYSTEM_PROMPT]
        /\ messages[n + 2] = [role |-> "user", content |-> request.message]
        /\ \A i \in 1..n :
             LET turn == h[Len(h) - n + i]
             IN  /\ messages[i + 1].role =
                      (IF "role" \in DOMAIN turn THEN turn.role ELSE "user")
                 /\ messages[i + 1].content =
                      (IF "content" \in DOMAIN turn THEN turn.content ELSE "")

\* main.py has sent a list for a history longer than its window whose
\* window starts with a turn without content and then a turn without role
C24_Witness ==
  /\ variant = "main" /\ pc = "chat_create" /\ request.kind = "chat"
  /\ Len(request.conversation_history) > HistoryWindowMain
  /\ request.message = "write"
  /\ Len(messages) = HistoryWindowMain + 2
  /\ messages[2] = [role |-> "assistant", content |-> ""]
  /\ messages[3] = [role |-> "user", content |-> "hi"]

\* the structured generation in hand has called the model
GenerationCalled ==
  pc \in {"generate_create", "routes_create", "form_create"}

\* the place of a labelled field in the order type, recipient, sender,
\* context, tone, length, reply-to
Rank(label) ==
  CASE label = "type" -> 1
    [] label = "recipient" -> 2
    [] label = "sender" -> 3
    [] label = "context" -> 4
    [] label = "tone" -> 5
    [] label = "length" -> 6
    [] label = "reply_to" -> 7

RankedLabels == {"type", "recipient", "sender", "context", "tone", "length", "reply_to"}

HasLine(prompt, label) == \E i \in 1..Len(prompt) : prompt[i].label = label

\* C25: the user instruction of a structured generation lists its fields
\* in the order type, recipient, sender, context, tone, length, reply-to;
\* the context line and the reply-to line are there exactly when the field
\* is non-empty; the list ends with the output-format directive.
C25_PromptFieldOrder ==
  GenerationCalled =>
    LET prompt == messages[2].content
        fields == SelectSeq(prompt, LAMBDA l : l.label \in RankedLabels)
    IN  /\ \A i, j \in 1..Len(fields) :
             i < j => Rank(fields[i].label) < Rank(fields[j].label)
        /\ HasLine(prompt, "context") <=> truthy(request.context)
        /\ "response_to" \in DOMAIN request =>
             (HasLine(prompt, "reply_to") <=> truthy(request.response_to))
        /\ prompt[Len(prompt)].label = "directive"

\* C26: the max_tokens that routes.py and app.py pass to the model is 200
\* for the length short, 400 for medium, 600 for long and 400 for every
\* other length, None included, so it is always 200, 400 or 600.
C26_TokenBudget ==
  pc \in {"routes_create", "form_create"} =>
    /\ request.length = "short" => max_tokens = 200
    /\ request.length = "medium" => max_tokens = 400
    /\ request.length = "long" => max_tokens = 600
    /\ request.length \notin {"short", "medium", "long"} => max_tokens = 400
    /\ max_tokens \in {200, 400, 600}

\* routes.py has called the model for a request whose length is None
C26_Witness ==
  /\ variant = "routes" /\ pc = "routes_create"
  /\ request.length = None
  /\ max_tokens = 400

\* how many elements of the list seq equal x
Count(seq, x) == Cardinality({i \in 1..Len(seq) : seq[i] = x})

\* the /chat request in hand was posted by the Streamlit client
FromClient == request.kind = "chat" /\ "session" \in DOMAIN request

\* C27: when the Streamlit client submits a prompt that its session does
\* not hold yet, the list the /chat handler passes to the model holds that
\* prompt as a user message exactly once.
C27_NewMessageOnce ==
  (FromClient /\ upstream_calls >= 1) =>
    Count(messages, [role |-> "user", content |-> request.message]) = 1

\* C28: the Streamlit client shows the success banner and the chat message
\* of a sent email only when the answer of /send-email has success true.
C28_SentOnlyOnSuccess ==
  st_banner = "st.success" => (response.status = "200" /\ response.success)

\* C29: the /ws handler calls the model for a message of a websocket only
\* while the websocket is in active_connections; once a failed send has
\* taken it out of the list no further message of it is processed.
C29_CallOnlyWhileRegistered ==
  [][\A w \in Websockets :
       (Receives(w) /\ openai_client) => w \in Range(active_connections)]_vars

\* the step calls manager.disconnect for w: its handler ends in an except
\* branch, or a send to it fails
Disconnects(w) == (ws_pc[w] # "none" /\ HandlerEnds(w)) \/ SendFails(w)

\* C30: whatever connects, disconnects and failed sends have happened, no
\* websocket is twice in active_connections, and disconnect can be repeated:
\* for a websocket that is not in the list it leaves the list as it is and
\* the step that called it goes on as for one that was in the list.
C30_NoDuplicatesIdempotentDisconnect ==
  [][\A w \in Websockets :
       /\ Count(active_connections', w) <= 1
       /\ disconnect(disconnect(active_connections, w), w)
            = disconnect(active_connections, w)
       /\ w \notin Range(active_connections) =>
            disconnect(active_connections, w) = active_connections
       /\ (Disconnects(w) /\ w \notin Range(active_connections)) =>
            /\ active_connections' = active_connections
            /\ ws_pc'[w] \in {"receive", "done"}]_vars

\* ws1 was taken out of the list by a failed send and disconnected again
\* when its handler ended, while ws2 is connected and waits for a message
C30_Witness ==
  /\ ws_pc["ws1"] = "done" /\ ws_outcome["ws1"] # <<>>
  /\ ws_outcome["ws1"][1] = "send_failed"
  /\ ws_pc["ws2"] = "receive"
  /\ active_connections = <<"ws2">>
====
